---- MODULE Spec2Model ----
(***************************************************************************)
(* Model of readingData.py: a linear script that opens an Arrow IPC        *)
(* stream file, reads every record batch into one table, converts the      *)
(* table to a pandas DataFrame and writes it with DataFrame.to_csv.        *)
(*                                                                         *)
(* Text is a sequence of one-character strings.  A cell is a record        *)
(* [isnull, s]: the validity bit and the string payload of an Arrow        *)
(* string array slot.  Columns are string columns without pandas index     *)
(* metadata, so to_pandas gives the frame a RangeIndex.                    *)
(***************************************************************************)
EXTENDS Integers, Sequences, FiniteSets, TLC

\* ---------------------------------------------------------------- bounds
\* most rows in the whole archive
MaxRows == 2
\* most record batches in the archive
MaxBatches == 2

\* ------------------------------------------------------------- the data
Null == [isnull |-> TRUE, s |-> <<>>]
Str(s) == [isnull |-> FALSE, s |-> s]

QUOTE == "\""
COMMA == ","
LF == "\n"
CR == "\r"

\* the payloads tried in column A: empty, plain, and each character the
\* CSV dialect treats specially
AValues == {Null, Str(<<>>), Str(<<"a">>), Str(<<COMMA>>), Str(<<QUOTE>>), Str(<<LF>>)}
BValues == {Null, Str(<<"b", COMMA>>)}
ColValues(name) == IF name = <<"A">> THEN AValues ELSE BValues

\* the schemas tried: one column, and two columns
Schemas == {<< <<"A">> >>, << <<"A">>, <<"B">> >>}

Rows(schema) ==
    {r \in [1..Len(schema) -> AValues \cup BValues] :
        \A j \in 1..Len(schema) : r[j] \in ColValues(schema[j])}

RECURSIVE Sum(_)
Sum(sizes) == IF sizes = <<>> THEN 0 ELSE Head(sizes) + Sum(Tail(sizes))

\* a record batch is columnar: one array per field of the schema
MakeBatch(schema, rows) ==
    [num_rows |-> Len(rows),
     columns  |-> [j \in 1..Len(schema) |-> [i \in 1..Len(rows) |-> rows[i][j]]]]

BatchSizes ==
    {sz \in UNION {[1..m -> 0..MaxRows] : m \in 0..MaxBatches} : Sum(sz) <= MaxRows}

MakeBatches(schema, rows, sizes) ==
    [b \in 1..Len(sizes) |->
        MakeBatch(schema,
                  SubSeq(rows, Sum(SubSeq(sizes, 1, b-1)) + 1,
                               Sum(SubSeq(sizes, 1, b))))]

\* the file at dataPath: absent, or an IPC stream whose schema message or
\* whose batch messages may be undecodable
Forms == {"ok", "bad_schema", "bad_batch"}
AbsentFile == [exists |-> FALSE, form |-> "ok", schema |-> <<>>, batches |-> <<>>]
Archive(sc, sz, rows, fm) ==
    [exists |-> TRUE, form |-> fm, schema |-> sc, batches |-> MakeBatches(sc, rows, sz)]

\* the file at ./DataBase.csv before the run: absent, or left by an earlier run
NoFile == [exists |-> FALSE, data |-> <<>>]
OldFile == [exists |-> TRUE, data |-> <<"o", "l", "d", LF>>]

NoReader == [schema |-> <<>>, batches |-> <<>>, bound |-> FALSE]
NoTable == [schema |-> <<>>, columns |-> <<>>, built |-> FALSE]
NoFrame == [columns |-> <<>>, index |-> <<>>, rows |-> <<>>, built |-> FALSE]

\* ------------------------------------------------------ library calls
RECURSIVE Concat(_)
Concat(seqs) == IF seqs = <<>> THEN <<>> ELSE Head(seqs) \o Concat(Tail(seqs))

\* mutant of read_all: the chunks taken last batch first
read_all_reversed(reader) ==
    [schema  |-> reader.schema,
     columns |-> [j \in 1..Len(reader.schema) |->
                    Concat([b \in 1..Len(reader.batches) |->
                              reader.batches[Len(reader.batches) + 1 - b].columns[j]])],
     built   |-> TRUE]

\* reader.read_all(): one chunked column per field, chunks in batch order
read_all(reader) ==
    [schema  |-> reader.schema,
     columns |-> [j \in 1..Len(reader.schema) |->
                    Concat([b \in 1..Len(reader.batches) |-> reader.batches[b].columns[j]])],
     built   |-> TRUE]

NumRows(table) == IF Len(table.columns) = 0 THEN 0 ELSE Len(table.columns[1])

\* table.to_pandas(): row-major frame with a RangeIndex 0..N-1
to_pandas(table) ==
    [columns |-> table.schema,
     index   |-> [i \in 1..NumRows(table) |-> i - 1],
     rows    |-> [i \in 1..NumRows(table) |->
                    [j \in 1..Len(table.schema) |-> table.columns[j][i]]],
     built   |-> TRUE]

Digits == <<"0", "1", "2", "3", "4", "5", "6", "7", "8", "9">>

RECURSIVE IntToStr(_)
IntToStr(n) ==
    IF n < 10 THEN <<Digits[n + 1]>>
    ELSE IntToStr(n \div 10) \o <<Digits[(n % 10) + 1]>>

\* mutant of NeedsQuote: only the delimiter triggers quoting
NeedsQuote_DelimiterOnly(s) == \E i \in 1..Len(s) : s[i] = COMMA

\* csv.QUOTE_MINIMAL: quote a field holding the delimiter, the quote
\* character or a line break
NeedsQuote(s) == \E i \in 1..Len(s) : s[i] \in {COMMA, QUOTE, LF, CR}

\* mutant of DoubleQuotes: an embedded quote is not doubled
DoubleQuotes_None(s) == s

RECURSIVE DoubleQuotes(_)
DoubleQuotes(s) ==
    IF s = <<>> THEN <<>>
    ELSE (IF Head(s) = QUOTE THEN <<QUOTE, QUOTE>> ELSE <<Head(s)>>)
         \o DoubleQuotes(Tail(s))

csv_field(s) ==
    IF NeedsQuote(s) THEN <<QUOTE>> \o DoubleQuotes(s) \o <<QUOTE>> ELSE s

RECURSIVE JoinFields(_)
JoinFields(fields) ==
    IF fields = <<>> THEN <<>>
    ELSE IF Len(fields) = 1 THEN csv_field(fields[1])
    ELSE csv_field(Head(fields)) \o <<COMMA>> \o JoinFields(Tail(fields))

csv_row(fields) == JoinFields(fields) \o <<LF>>

\* na_rep = '': a missing value is written as the empty field
CellText(cell) == IF cell.isnull THEN <<>> ELSE cell.s

\* mutant of to_csv: index=False
to_csv_noindex(df) ==
    csv_row(df.columns)
    \o Concat([i \in 1..Len(df.rows) |->
                 csv_row([j \in 1..Len(df.columns) |-> CellText(df.rows[i][j])])])

\* mutant of to_csv: header=False
to_csv_noheader(df) ==
    Concat([i \in 1..Len(df.rows) |->
              csv_row(<<IntToStr(df.index[i])>>
                      \o [j \in 1..Len(df.columns) |-> CellText(df.rows[i][j])])])

\* df.to_csv(path) with the defaults: header=True, index=True, index_label ''
to_csv(df) ==
    csv_row(<< <<>> >> \o df.columns)
    \o Concat([i \in 1..Len(df.rows) |->
                 csv_row(<<IntToStr(df.index[i])>>
                         \o [j \in 1..Len(df.columns) |-> CellText(df.rows[i][j])])])

\* ------------------------------------------------------------ the state
VARIABLES pc, src, dst, dst0, f, reader, table, df, stdout, exit, failedAt, log, writes

vars == <<pc, src, dst, dst0, f, reader, table, df, stdout, exit, failedAt, log, writes>>

Init ==
    /\ pc = "l6"
    /\ \/ src = AbsentFile
       \/ \E sc \in Schemas, sz \in BatchSizes, fm \in Forms :
             \E rows \in [1..Sum(sz) -> Rows(sc)] :
                src = Archive(sc, sz, rows, fm)
    /\ dst0 \in {NoFile, OldFile}
    /\ dst = dst0
    /\ f = "unopened"
    /\ reader = NoReader
    /\ table = NoTable
    /\ df = NoFrame
    /\ stdout = <<>>
    /\ exit = "running"
    /\ failedAt = "none"
    /\ log = <<>>
    /\ writes = 0

\* an exception leaves the with block: the context manager closes f when
\* it was opened, and the interpreter exits non-zero
Raise(step) ==
    /\ pc' = "failed"
    /\ exit' = "failure"
    /\ failedAt' = step
    /\ f' = IF f = "open" THEN "closed" ELSE f
    /\ log' = IF f = "open" THEN Append(log, "release") ELSE log

\* mutant of Open: the file is opened 'wb', which truncates it
Open_ForWrite ==
    /\ pc = "l6"
    /\ src.exists
    /\ src' = [src EXCEPT !.batches = <<>>, !.form = "bad_schema"]
    /\ f' = "open"
    /\ pc' = "l7"
    /\ log' = Append(log, "open")
    /\ UNCHANGED <<dst, dst0, reader, table, df, stdout, exit, failedAt, writes>>

\* line 6: open(dataPath, 'rb')
Open ==
    /\ pc = "l6"
    /\ src.exists
    /\ f' = "open"
    /\ pc' = "l7"
    /\ log' = Append(log, "open")
    /\ UNCHANGED <<src, dst, dst0, reader, table, df, stdout, exit, failedAt, writes>>

\* mutant of OpenFail: the error is swallowed and the script ends normally
OpenFail_Swallowed ==
    /\ pc = "l6"
    /\ ~src.exists
    /\ pc' = "done"
    /\ exit' = "success"
    /\ UNCHANGED <<src, dst, dst0, f, reader, table, df, stdout, failedAt, log, writes>>

\* line 6: FileNotFoundError
OpenFail ==
    /\ pc = "l6"
    /\ ~src.exists
    /\ Raise("open")
    /\ UNCHANGED <<src, dst, dst0, reader, table, df, stdout, writes>>

\* line 7: RecordBatchStreamReader(f) reads the schema message
Decode ==
    /\ pc = "l7"
    /\ src.form # "bad_schema"
    /\ reader' = [schema |-> src.schema, batches |-> src.batches, bound |-> TRUE]
    /\ pc' = "l9"
    /\ log' = Append(log, "decode")
    /\ UNCHANGED <<src, dst, dst0, f, table, df, stdout, exit, failedAt, writes>>

\* line 7: ArrowInvalid, the bytes are no IPC stream
DecodeFail ==
    /\ pc = "l7"
    /\ src.form = "bad_schema"
    /\ Raise("decode")
    /\ UNCHANGED <<src, dst, dst0, reader, table, df, stdout, writes>>

\* line 9: print(reader)
PrintReader ==
    /\ pc = "l9"
    /\ stdout' = Append(stdout, [kind |-> "reader", frame |-> NoFrame])
    /\ pc' = "l11"
    /\ log' = Append(log, "print_reader")
    /\ UNCHANGED <<src, dst, dst0, f, reader, table, df, exit, failedAt, writes>>

\* line 11: table = reader.read_all()
ReadAll ==
    /\ pc = "l11"
    /\ src.form # "bad_batch"
    /\ table' = read_all(reader)
    /\ pc' = "l14"
    /\ log' = Append(log, "read_all")
    /\ UNCHANGED <<src, dst, dst0, f, reader, df, stdout, exit, failedAt, writes>>

\* mutant of ReadAllFail: the error is caught and an empty table is used
ReadAllFail_Recover ==
    /\ pc = "l11"
    /\ src.form = "bad_batch"
    /\ table' = [schema |-> reader.schema,
                 columns |-> [j \in 1..Len(reader.schema) |-> <<>>],
                 built |-> TRUE]
    /\ pc' = "l14"
    /\ log' = Append(log, "read_all")
    /\ UNCHANGED <<src, dst, dst0, f, reader, df, stdout, exit, failedAt, writes>>

\* line 11: a batch message cannot be decoded
ReadAllFail ==
    /\ pc = "l11"
    /\ src.form = "bad_batch"
    /\ Raise("read_all")
    /\ UNCHANGED <<src, dst, dst0, reader, table, df, stdout, writes>>

\* mutant of PrintTable: the frame is also dumped to the destination
PrintTable_Dump ==
    /\ pc = "l14"
    /\ stdout' = Append(stdout, [kind |-> "frame", frame |-> to_pandas(table)])
    /\ dst' = [exists |-> TRUE, data |-> to_csv(to_pandas(table))]
    /\ writes' = writes + 1
    /\ pc' = "l15"
    /\ log' = Append(log, "print_table")
    /\ UNCHANGED <<src, dst0, f, reader, table, df, exit, failedAt>>

\* line 14: print(table.to_pandas())
PrintTable ==
    /\ pc = "l14"
    /\ stdout' = Append(stdout, [kind |-> "frame", frame |-> to_pandas(table)])
    /\ pc' = "l15"
    /\ log' = Append(log, "print_table")
    /\ UNCHANGED <<src, dst, dst0, f, reader, table, df, exit, failedAt, writes>>

\* line 14: the conversion for the print raises
PrintTableFail ==
    /\ pc = "l14"
    /\ Raise("print_table")
    /\ UNCHANGED <<src, dst, dst0, reader, table, df, stdout, writes>>

\* line 15: df = table.to_pandas()
Convert ==
    /\ pc = "l15"
    /\ df' = to_pandas(table)
    /\ pc' = "l16"
    /\ log' = Append(log, "convert")
    /\ UNCHANGED <<src, dst, dst0, f, reader, table, stdout, exit, failedAt, writes>>

\* line 15: the conversion raises (the frame does not fit in memory)
ConvertFail ==
    /\ pc = "l15"
    /\ Raise("convert")
    /\ UNCHANGED <<src, dst, dst0, reader, table, df, stdout, writes>>

\* line 16: df.to_csv("./DataBase.csv") creates or overwrites the file
WriteCsv ==
    /\ pc = "l16"
    /\ dst' = [exists |-> TRUE, data |-> to_csv(df)]
    /\ writes' = writes + 1
    /\ pc' = "exit_with"
    /\ log' = Append(log, "write")
    /\ UNCHANGED <<src, dst0, f, reader, table, df, stdout, exit, failedAt>>

\* line 16: the destination cannot be opened for writing
WriteFail ==
    /\ pc = "l16"
    /\ Raise("write")
    /\ UNCHANGED <<src, dst, dst0, reader, table, df, stdout, writes>>

\* mutant of ExitWith: a bare open() without the with block, never closed
ExitWith_NoClose ==
    /\ pc = "exit_with"
    /\ pc' = "done"
    /\ exit' = "success"
    /\ UNCHANGED <<src, dst, dst0, f, reader, table, df, stdout, failedAt, log, writes>>

\* end of the with block opened at line 6: f is closed, the script ends
ExitWith ==
    /\ pc = "exit_with"
    /\ f' = "closed"
    /\ pc' = "done"
    /\ exit' = "success"
    /\ log' = Append(log, "release")
    /\ UNCHANGED <<src, dst, dst0, reader, table, df, stdout, failedAt, writes>>

Next ==
    \/ Open
    \/ OpenFail
    \/ Decode
    \/ DecodeFail
    \/ PrintReader
    \/ ReadAll
    \/ ReadAllFail
    \/ PrintTable
    \/ PrintTableFail
    \/ Convert
    \/ ConvertFail
    \/ WriteCsv
    \/ WriteFail
    \/ ExitWith

Spec == Init /\ [][Next]_vars

\* ------------------------------------------- reading the output back
\* A CSV reader for the excel dialect (comma, double quote, doubled quote
\* inside a quoted field, LF / CR / CRLF record ends), one character at a
\* time.  A field is [text, quoted]: quoted when it opened with a quote.
ReaderStart ==
    [mode |-> "start_record", field |-> <<>>, quoted |-> FALSE, rec |-> <<>>, out |-> <<>>]

SaveField(st) ==
    [st EXCEPT !.rec = Append(@, [text |-> st.field, quoted |-> st.quoted]),
               !.field = <<>>, !.quoted = FALSE, !.mode = "start_field"]

EndRecord(st, c) ==
    LET s2 == SaveField(st)
    IN  [s2 EXCEPT !.out = Append(@, s2.rec), !.rec = <<>>,
                   !.mode = IF c = CR THEN "eat_crnl" ELSE "start_record"]

AddChar(st, c, mode) == [st EXCEPT !.field = Append(@, c), !.mode = mode]

StartField(st, c) ==
    IF c \in {LF, CR} THEN EndRecord(st, c)
    ELSE IF c = QUOTE THEN [st EXCEPT !.quoted = TRUE, !.mode = "in_quoted"]
    ELSE IF c = COMMA THEN SaveField(st)
    ELSE AddChar(st, c, "in_field")

StartRecord(st, c) ==
    IF c \in {LF, CR}
    THEN [st EXCEPT !.out = Append(@, <<>>),
                    !.mode = IF c = CR THEN "eat_crnl" ELSE "start_record"]
    ELSE StartField(st, c)

StepChar(st, c) ==
    CASE st.mode = "eat_crnl" ->
            IF c = LF THEN [st EXCEPT !.mode = "start_record"] ELSE StartRecord(st, c)
      [] st.mode = "start_record" -> StartRecord(st, c)
      [] st.mode = "start_field" -> StartField(st, c)
      [] st.mode = "in_field" ->
            IF c \in {LF, CR} THEN EndRecord(st, c)
            ELSE IF c = COMMA THEN SaveField(st)
            ELSE AddChar(st, c, "in_field")
      [] st.mode = "in_quoted" ->
            IF c = QUOTE THEN [st EXCEPT !.mode = "quote_in_quoted"]
            ELSE AddChar(st, c, "in_quoted")
      [] st.mode = "quote_in_quoted" ->
            IF c = QUOTE THEN AddChar(st, c, "in_quoted")
            ELSE IF c = COMMA THEN SaveField(st)
            ELSE IF c \in {LF, CR} THEN EndRecord(st, c)
            ELSE AddChar(st, c, "in_field")

RECURSIVE Scan(_, _, _)
Scan(text, i, st) ==
    IF i > Len(text)
    THEN (IF st.mode \in {"start_record", "eat_crnl"} THEN st.out ELSE EndRecord(st, LF).out)
    ELSE Scan(text, i + 1, StepChar(st, text[i]))

csv_reader(text) == Scan(text, 1, ReaderStart)

Texts(rec) == [j \in 1..Len(rec) |-> rec[j].text]

\* the number of line terminators in a text
LineCount(text) == Cardinality({i \in 1..Len(text) : text[i] = LF})

DigitValue(c) == CHOOSE d \in 0..9 : Digits[d + 1] = c

IsNumber(s) == Len(s) > 0 /\ \A i \in 1..Len(s) : \E d \in 0..9 : Digits[d + 1] = s[i]

RECURSIVE StrToInt(_)
StrToInt(s) ==
    IF Len(s) = 1 THEN DigitValue(s[1])
    ELSE 10 * StrToInt(SubSeq(s, 1, Len(s) - 1)) + DigitValue(s[Len(s)])

\* ------------------------------------- the archive's logical contents
BatchRow(batch, i) == [j \in 1..Len(batch.columns) |-> batch.columns[j][i]]

BatchRows(batch) == [i \in 1..batch.num_rows |-> BatchRow(batch, i)]

\* b1 ++ b2 ++ ... ++ bm, batch order first, then in-batch order
ArchiveRows(a) == Concat([b \in 1..Len(a.batches) |-> BatchRows(a.batches[b])])

RowsBefore(a, b) == Sum([x \in 1..(b - 1) |-> a.batches[x].num_rows])

HasLineBreak(s) == \E i \in 1..Len(s) : s[i] \in {LF, CR}

IsSpecial(s) == \E i \in 1..Len(s) : s[i] \in {COMMA, QUOTE, LF}

Succeeded == pc = "done"

Output == csv_reader(dst.data)

\* header plus N records of k+1 fields: '' and the column names, then the
\* position and the cells' text, a null cell as the empty field
Shape(Rd, rows, schema) ==
    LET R == Rd IN
    /\ Len(R) = Len(rows) + 1
    /\ \A r \in 1..Len(R) : Len(R[r]) = Len(schema) + 1
    /\ Texts(R[1]) = << <<>> >> \o schema
    /\ \A i \in 1..Len(rows) :
          /\ IsNumber(R[i + 1][1].text)
          /\ StrToInt(R[i + 1][1].text) = i - 1
          /\ \A j \in 1..Len(schema) : R[i + 1][j + 1].text = CellText(rows[i][j])

\* ---------------------------------------------------------------- C1
\* C1 as stated: a successful run leaves exactly N+1 lines, header plus N
\* data rows of k+1 fields: the zero-based position, then the archive's
\* columns in order with the row's contents.
C1_AsStated ==
    Succeeded =>
        LET rows == ArchiveRows(src)
        IN  /\ LineCount(dst.data) = Len(rows) + 1
            /\ Shape(Output, rows, src.schema)

\* C1 amended: a successful run leaves exactly N+1 CSV records (header plus
\* N data records) of k+1 fields each: the zero-based position, then the
\* text of the archive's cells in column order, a null cell as the empty
\* field; the file has N+1 lines when no cell holds a line break.
C1_Records ==
    Succeeded =>
        LET rows == ArchiveRows(src)
        IN  /\ Shape(Output, rows, src.schema)
            /\ (\A i \in 1..Len(rows) : \A j \in 1..Len(src.schema) :
                    ~HasLineBreak(rows[i][j].s))
                  => LineCount(dst.data) = Len(rows) + 1

C1_Witness ==
    /\ Succeeded
    /\ Len(src.schema) = 2
    /\ Len(ArchiveRows(src)) = 2
    /\ ArchiveRows(src)[1][1] = Str(<<"a">>)
    /\ ArchiveRows(src)[2][1] = Str(<<COMMA>>)
    /\ LineCount(dst.data) = 3

\* ---------------------------------------------------------------- C4
\* C4: row r of batch b is the data record at position (rows of the
\* batches before b) + r, and there are as many data records as rows in
\* all batches: nothing dropped, duplicated or reordered.
C4_BatchOrder ==
    Succeeded =>
        LET R == Output
        IN  /\ Len(R) - 1 = Sum([b \in 1..Len(src.batches) |-> src.batches[b].num_rows])
            /\ \A b \in 1..Len(src.batches) : \A r \in 1..src.batches[b].num_rows :
                  LET rec == R[1 + RowsBefore(src, b) + r]
                  IN  /\ StrToInt(rec[1].text) = RowsBefore(src, b) + r - 1
                      /\ \A j \in 1..Len(src.schema) :
                            rec[j + 1].text = CellText(src.batches[b].columns[j][r])

C4_Witness ==
    /\ Succeeded
    /\ Len(src.batches) = 2
    /\ src.batches[1].num_rows = 1
    /\ src.batches[2].num_rows = 1
    /\ BatchRow(src.batches[1], 1) # BatchRow(src.batches[2], 1)
    /\ Texts(Output[2])[2] = CellText(src.batches[1].columns[1][1])
    /\ Texts(Output[3])[2] = CellText(src.batches[2].columns[1][1])

\* ---------------------------------------------------------------- C5
\* the table read back from the CSV, the index column dropped
ReadBack(Rd) ==
    LET R == Rd IN
    [columns |-> Tail(Texts(R[1])),
     rows    |-> [i \in 1..(Len(R) - 1) |->
                    [j \in 1..(Len(R[i + 1]) - 1) |-> Str(R[i + 1][j + 1].text)]]]

Logical(a) == [columns |-> a.schema, rows |-> ArchiveRows(a)]

NoNulls(a) ==
    LET rows == ArchiveRows(a)
    IN  \A i \in 1..Len(rows) : \A j \in 1..Len(a.schema) : ~rows[i][j].isnull

\* C5 as stated: for every archive the table read back from the CSV, index
\* column dropped, is identical to the archive's table.
C5_AsStated == Succeeded => ReadBack(Output) = Logical(src)

\* C5 amended: for every archive without null cells the table read back,
\* index column dropped, is identical to the archive's table in values,
\* column order and row order; a null cell is read back as the empty
\* string.
C5_RoundTrip ==
    Succeeded =>
        LET back == ReadBack(Output)
            rows == ArchiveRows(src)
        IN  /\ NoNulls(src) => back = Logical(src)
            /\ back.columns = src.schema
            /\ Len(back.rows) = Len(rows)
            /\ \A i \in 1..Len(rows) : \A j \in 1..Len(src.schema) :
                  back.rows[i][j] = Str(CellText(rows[i][j]))

C5_Witness ==
    /\ Succeeded
    /\ NoNulls(src)
    /\ Len(src.schema) = 2
    /\ Len(ArchiveRows(src)) = 2
    /\ ArchiveRows(src)[1][1] = Str(<<QUOTE>>)
    /\ ArchiveRows(src)[2][1] = Str(<<LF>>)
    /\ ReadBack(Output) = Logical(src)

\* ---------------------------------------------------------------- C6
\* C6: an archive with zero rows (no batch, or only empty batches) gives a
\* file of exactly one line, the header, and no data line.
C6_HeaderOnly ==
    (Succeeded /\ Len(ArchiveRows(src)) = 0) =>
        /\ LineCount(dst.data) = 1
        /\ dst.data[Len(dst.data)] = LF
        /\ Len(Output) = 1
        /\ Texts(Output[1]) = << <<>> >> \o src.schema

C6_Witness ==
    /\ Succeeded
    /\ Len(src.batches) = 2
    /\ \A b \in 1..Len(src.batches) : src.batches[b].num_rows = 0
    /\ Len(src.schema) = 2
    /\ dst0 = OldFile
    /\ LineCount(dst.data) = 1

\* ---------------------------------------------------------------- C8
\* C8: a cell holding a comma, a double quote or a newline is written as a
\* quoted field, every record splits into as many fields as the header,
\* and the reader recovers the cell's value.
C8_Quoting ==
    Succeeded =>
        LET R == Output
            rows == ArchiveRows(src)
        IN  /\ \A r \in 1..Len(R) : Len(R[r]) = Len(R[1])
            /\ Len(R) = Len(rows) + 1
            /\ \A i \in 1..Len(rows) : \A j \in 1..Len(src.schema) :
                  LET cell == rows[i][j]
                  IN  (~cell.isnull /\ IsSpecial(cell.s)) =>
                          /\ R[i + 1][j + 1].quoted
                          /\ R[i + 1][j + 1].text = cell.s

C8_Witness ==
    /\ Succeeded
    /\ Len(ArchiveRows(src)) = 2
    /\ Len(src.schema) = 2
    /\ ArchiveRows(src)[1] = <<Str(<<LF>>), Str(<<"b", COMMA>>)>>
    /\ ArchiveRows(src)[2] = <<Str(<<QUOTE>>), Null>>
    /\ Output[2][2].quoted
    /\ Output[3][2].text = <<QUOTE>>
    /\ ~Output[3][3].quoted

\* ---------------------------------------------------------------- C2
\* C2: with the source file missing the run ends at once in failure and
\* the destination is as it was before the run, neither created nor
\* modified.
C2_MissingSource ==
    ~src.exists =>
        /\ dst = dst0
        /\ writes = 0
        /\ f = "unopened"
        /\ \/ pc = "l6" /\ exit = "running" /\ ENABLED OpenFail
           \/ pc = "failed" /\ exit = "failure" /\ failedAt = "open"

C2_Witness ==
    /\ ~src.exists
    /\ pc = "failed"
    /\ exit = "failure"
    /\ dst0 = OldFile
    /\ dst = OldFile

\* ---------------------------------------------------------------- C3
StepOrder ==
    <<"open", "decode", "print_reader", "read_all", "print_table", "convert", "write",
      "release">>

\* C3 as stated: the handle is released before the destination is written,
\* and is never open while the destination is being written.
C3_AsStated ==
    /\ pc = "l16" => f = "closed"
    /\ \A i \in 1..Len(log) :
          log[i] = "write" => \E j \in 1..(i - 1) : log[j] = "release"

\* C3 amended: the handle is released when the with block is left, after
\* the destination has been written: a successful run goes open, read all
\* batches, convert, write, release, the handle being open while the
\* destination is written; a failing run releases the handle, if it was
\* opened, as the failure propagates.
C3_ReleaseAfterWrite ==
    /\ pc = "l16" => f = "open"
    /\ \A i \in 1..Len(log) :
          /\ log[i] = "write" => SubSeq(log, 1, i - 1) = SubSeq(StepOrder, 1, 6)
          /\ log[i] = "release" => i = Len(log) /\ exit # "running"
    /\ Succeeded => log = StepOrder
    /\ exit # "running" => f # "open"
    /\ f = "open" <=> (log # <<>> /\ log[Len(log)] # "release")

C3_Witness ==
    /\ pc = "exit_with"
    /\ f = "open"
    /\ writes = 1
    /\ dst.exists
    /\ log = SubSeq(StepOrder, 1, 7)

\* ---------------------------------------------------------------- C7
FailingStep == {"open", "decode", "read_all", "print_table", "convert", "write"}

StepIndex(step) == CHOOSE n \in 1..Len(StepOrder) : StepOrder[n] = step

\* C7: a failure ends the run at once in failure: the steps before the
\* failing one ran, none after it did, nothing is enabled afterwards; the
\* run ends in success only when every step completed.
C7_FailFast ==
    /\ exit = "failure" =>
          /\ pc = "failed"
          /\ failedAt \in FailingStep
          /\ log = SubSeq(StepOrder, 1, StepIndex(failedAt) - 1)
                   \o (IF failedAt = "open" THEN <<>> ELSE <<"release">>)
          /\ failedAt # "write" => writes = 0
    /\ exit = "success" =>
          /\ pc = "done"
          /\ log = StepOrder
          /\ src.exists /\ src.form = "ok"
          /\ table.built /\ df.built /\ writes = 1
    /\ exit # "running" => ~ENABLED Next
    /\ (~src.exists /\ pc # "l6") => failedAt = "open"
    /\ (src.form = "bad_schema" /\ pc \notin {"l6", "l7"}) => failedAt = "decode"
    /\ (src.form = "bad_batch" /\ pc \notin {"l6", "l7", "l9", "l11"}) => failedAt = "read_all"

C7_Witness ==
    /\ exit = "failure"
    /\ failedAt = "read_all"
    /\ src.form = "bad_batch"
    /\ log = <<"open", "decode", "print_reader", "release">>
    /\ ~table.built

\* ---------------------------------------------------------------- C9
\* C9: the destination changes only in the write step, reached after all
\* batches are read and the table converted; a run failing at open,
\* decode, read or convert leaves it as it was; it is written at most once.
C9_WriteOnce ==
    /\ writes \in {0, 1}
    /\ writes = 0 => dst = dst0
    /\ writes = 1 =>
          /\ pc \in {"exit_with", "done"}
          /\ SubSeq(log, 1, 7) = SubSeq(StepOrder, 1, 7)
          /\ NumRows(table) = Sum([b \in 1..Len(src.batches) |-> src.batches[b].num_rows])
          /\ df = to_pandas(table)
          /\ dst = [exists |-> TRUE, data |-> to_csv(df)]
    /\ failedAt \in {"open", "decode", "read_all", "print_table", "convert"} =>
          dst = dst0 /\ writes = 0

C9_Witness ==
    /\ exit = "failure"
    /\ failedAt = "convert"
    /\ NumRows(table) = 2
    /\ dst0 = OldFile
    /\ dst = OldFile

\* --------------------------------------------------------------- C10
\* C10: no step changes the source file; the table, once built by
\* read_all, never changes, and the frame printed is the frame written.
C10_SourceReadOnly ==
    [][/\ src' = src
       /\ table.built => table' = table
       /\ df'.built => /\ Len(stdout') = 2
                       /\ stdout'[2] = [kind |-> "frame", frame |-> df']
                       /\ df' = to_pandas(table')]_vars

C10_Witness ==
    /\ Succeeded
    /\ Len(ArchiveRows(src)) = 2
    /\ stdout[2].frame = df
    /\ df.rows = ArchiveRows(src)
    /\ dst.data = to_csv(stdout[2].frame)

====
